---- MODULE Spec2Model ----
(***************************************************************************)
(* Model of src/logiccircuite.py: the Quine-McCluskey style simplifier     *)
(* qm_simplify (with its nested combine), the renderer bits_to_expr and    *)
(* the part of main that feeds qm_simplify.                                *)
(*                                                                         *)
(* A Python string is modelled as a sequence of one-character strings, so  *)
(* "0-1" is <<"0", "-", "1">>.  A Python set is a TLA+ set.  The recursion *)
(* of qm_simplify is modelled by an explicit call stack of frames.         *)
(***************************************************************************)
EXTENDS Integers, Sequences, FiniteSets, TLC

\* Largest number of variables explored.
MaxN == 3
\* Largest depth of the call stack explored (never reached by the code).
MaxDepth == 6
\* --dontcare is explored only together with at most this many minterms.
MaxDCMinterms == 1
\* Largest assignment index explored; a caller that does not respect the
\* range [0, 2^n) hands indices up to it to qm_simplify whatever n is.
MaxIdx == 8

\* The alphabet main draws variable names from (expr characters that are
\* letters, sorted).
Names == <<"A", "B", "C", "D", "E">>

VARIABLES
    pc,          \* position of the program
    num_vars,    \* qm_simplify's num_vars / len(vars_sorted) in main
    minterms,    \* main's minterms, the set handed to the outermost call
    dontcare,    \* args.dontcare of main (the parsed --dontcare list)
    arg,         \* the minterms argument of the call about to be executed
    stack,       \* the frames of the active calls of qm_simplify
    result,      \* the value returned by the last call that returned
    run,         \* 1 for the first minimisation, 2 for the re-minimisation
    first,       \* the result of the first minimisation
    bits,        \* bits_to_expr's bits
    vars_sorted, \* bits_to_expr's vars_sorted
    expr         \* the value bits_to_expr returned

vars == <<pc, num_vars, minterms, dontcare, arg, stack, result, run, first,
          bits, vars_sorted, expr>>

qmVars == <<pc, num_vars, minterms, dontcare, arg, stack, result, run, first>>
renderVars == <<bits, vars_sorted, expr>>

----------------------------------------------------------------------------
(* Helpers on numbers and strings *)

RECURSIVE Pow2(_)
Pow2(k) == IF k <= 0 THEN 1 ELSE 2 * Pow2(k - 1)

Min(a, b) == IF a <= b THEN a ELSE b

\* The binary digits of m >= 0, most significant first, at least one digit.
RECURSIVE Bin(_)
Bin(m) ==
    IF m < 2 THEN << IF m = 1 THEN "1" ELSE "0" >>
    ELSE Append(Bin(m \div 2), IF m % 2 = 1 THEN "1" ELSE "0")

\* A format that also rejects the width 0.
FormatFailsBelowOne(n) == n < 1

\* format(m, f'0{n}b') raises ValueError for a negative width.
FormatFails(n) == n < 0

\* Format with the zero padding lost, as format(m, 'b') would give.
FormatNoPad(m, n) == Bin(m)

\* format(m, f'0{n}b'): the binary digits of m, zero-padded on the left to
\* width n; a number that needs more than n digits keeps all of them.
Format(m, n) ==
    LET b == Bin(m)
    IN  IF Len(b) >= n THEN b ELSE [i \in 1..(n - Len(b)) |-> "0"] \o b

\* The falsy value combine returns (None); `if combined:` tests truthiness.
None == <<>>

\* The number of positions of zip(a, b) at which a and b differ, and the
\* string res built over them.
Diff(a, b) ==
    Cardinality({i \in 1..Min(Len(a), Len(b)) : a[i] # b[i]})
Res(a, b) ==
    [i \in 1..Min(Len(a), Len(b)) |-> IF a[i] # b[i] THEN "-" ELSE a[i]]

\* combine with the test diff <= 1 (a string combines with itself).
combineUpToOne(a, b) == IF Diff(a, b) <= 1 THEN Res(a, b) ELSE None

\* combine with the test diff >= 1 (any two different strings combine).
combineAnyDiff(a, b) == IF Diff(a, b) >= 1 THEN Res(a, b) ELSE None

\* combine(a, b): zip stops at the shorter string.
combine(a, b) == IF Diff(a, b) = 1 THEN Res(a, b) ELSE None

\* int(t.replace('-', '0'), 2)
RECURSIVE ToInt(_)
ToInt(t) ==
    IF t = <<>> THEN 0
    ELSE 2 * ToInt(SubSeq(t, 1, Len(t) - 1))
         + (IF t[Len(t)] = "1" THEN 1 ELSE 0)

----------------------------------------------------------------------------
(* One level of qm_simplify *)

\* terms = {format(m, f'0{num_vars}b') for m in minterms}
Terms(ms, n) == {Format(m, n) : m \in ms}

\* The pairs (a, b) of the double loop over terms for which `if combined:`
\* holds.
Combining(terms) ==
    {ab \in terms \X terms : combine(ab[1], ab[2]) # None}

\* new_terms after the double loop: every combined pattern is added.
NewTerms(pairs) == {combine(ab[1], ab[2]) : ab \in pairs}

\* unchecked after the double loop: both members of every combining pair
\* are discarded from the copy of terms.
Unchecked(terms, pairs) ==
    (terms \ {ab[1] : ab \in pairs}) \ {ab[2] : ab \in pairs}

\* The double loop with pairs that differ in two positions taken as
\* combining and without the discards.
FrameLoose(ms, n) ==
    LET terms == Terms(ms, n)
        pairs == {ab \in terms \X terms : Diff(ab[1], ab[2]) = 2}
    IN  [minterms |-> ms, terms |-> terms,
         unchecked |-> terms,
         new_terms |-> {Res(ab[1], ab[2]) : ab \in pairs}]

\* The locals of one call after its double loop.
Frame(ms, n) ==
    LET terms == Terms(ms, n)
        pairs == Combining(terms)
    IN  [minterms |-> ms, terms |-> terms,
         unchecked |-> Unchecked(terms, pairs), new_terms |-> NewTerms(pairs)]

\* The argument of the recursive call.
NextArg(new_terms) == {ToInt(t) : t \in new_terms}

\* The value a call returns, given the value r its recursive call returned.
ReturnValue(f, r) ==
    IF f.new_terms = {} THEN f.unchecked ELSE r \cup f.unchecked

----------------------------------------------------------------------------
(* The covering relation of the data model *)

\* Bit i (1 = most significant) of the n-bit encoding of m.
Bit(m, i, n) == (m \div Pow2(n - i)) % 2

Covers(p, m, n) ==
    /\ Len(p) = n
    /\ \A i \in 1..n : p[i] = "-" \/ p[i] = (IF Bit(m, i, n) = 1 THEN "1" ELSE "0")

Indices(n) == 0..(Pow2(n) - 1)

Expand(R, n) == {m \in Indices(n) : \E p \in R : Covers(p, m, n)}

Patterns(n) == [1..n -> {"0", "1", "-"}]

----------------------------------------------------------------------------
(* bits_to_expr *)

\* The literal appended for one (b, v) pair of zip(bits, vars_sorted);
\* nothing is appended for '-'.
LiteralSwapped(b, v) ==
    IF b = "0" THEN << <<v>> >>
    ELSE IF b = "1" THEN << <<"!", v>> >>
    ELSE <<>>
Literal(b, v) ==
    IF b = "1" THEN << <<v>> >>
    ELSE IF b = "0" THEN << <<"!", v>> >>
    ELSE <<>>

\* terms after the loop over zip(bits, vars_sorted).
RECURSIVE Literals(_, _)
Literals(b, v) ==
    IF b = <<>> \/ v = <<>> THEN <<>>
    ELSE Literal(Head(b), Head(v)) \o Literals(Tail(b), Tail(v))

\* '.'.join(terms)
RECURSIVE Join(_)
Join(terms) ==
    IF terms = <<>> THEN <<>>
    ELSE IF Len(terms) = 1 THEN terms[1]
    ELSE terms[1] \o <<".">> \o Join(Tail(terms))

bits_to_expr(b, v) ==
    LET terms == Literals(b, v)
    IN  IF terms # <<>> THEN Join(terms) ELSE <<"1">>

----------------------------------------------------------------------------
(* Initial states *)

\* Sorted lists of n distinct names, as sorted(set(...)) builds them.
SortedNames(n) ==
    {[i \in 1..n |-> Names[f[i]]] :
        f \in {g \in [1..n -> 1..Len(Names)] :
                  \A i \in 1..n, j \in 1..n : i < j => g[i] < g[j]}}

RenderIdle ==
    /\ bits = <<>>
    /\ vars_sorted = <<>>
    /\ expr = <<>>

\* --dontcare values explored with the minterm set ms.
DontCares(ms, n) ==
    {{}} \cup (IF Cardinality(ms) <= MaxDCMinterms
               THEN {{d} : d \in (Indices(n) \cap (0..MaxIdx)) \ ms}
               ELSE {})

\* main, with the truth table of an expression over 1..MaxN variables whose
\* minterms lie in 0..MaxIdx.
Init ==
    /\ pc = "main"
    /\ num_vars \in 1..MaxN
    /\ minterms \in SUBSET (Indices(num_vars) \cap (0..MaxIdx))
    /\ dontcare \in DontCares(minterms, num_vars)
    /\ arg = {}
    /\ stack = <<>>
    /\ result = {}
    /\ run = 1
    /\ first = {}
    /\ RenderIdle

\* A direct call of qm_simplify by a caller that validates nothing.
InitAnyInput ==
    /\ pc = "call"
    /\ num_vars \in (0 - 1)..MaxN
    /\ minterms \in SUBSET (0..MaxIdx)
    /\ dontcare = {}
    /\ arg = minterms
    /\ stack = <<>>
    /\ result = {}
    /\ run = 1
    /\ first = {}
    /\ RenderIdle

\* A direct call of bits_to_expr.
InitRender ==
    /\ pc = "render"
    /\ num_vars \in 1..MaxN
    /\ bits \in Patterns(num_vars)
    /\ vars_sorted \in SortedNames(num_vars)
    /\ expr = <<>>
    /\ minterms = {}
    /\ dontcare = {}
    /\ arg = {}
    /\ stack = <<>>
    /\ result = {}
    /\ run = 1
    /\ first = {}

----------------------------------------------------------------------------
(* Actions *)

\* main: simplified = qm_simplify(minterms, len(vars_sorted)); args.dontcare
\* is parsed but never read.
Main ==
    /\ pc = "main"
    /\ pc' = "call"
    /\ arg' = minterms
    /\ stack' = <<>>
    /\ result' = {}
    /\ UNCHANGED <<num_vars, minterms, dontcare, run, first>>
    /\ UNCHANGED renderVars

\* One call of qm_simplify up to its return or its recursive call.
Call ==
    /\ pc = "call"
    /\ Len(stack) < MaxDepth
    /\ IF FormatFails(num_vars) /\ arg # {}
       THEN /\ pc' = "error"
            /\ stack' = <<>>
            /\ arg' = arg
       ELSE LET f == Frame(arg, num_vars)
            IN  /\ stack' = Append(stack, f)
                /\ pc' = IF f.new_terms = {} THEN "ret" ELSE "call"
                /\ arg' = IF f.new_terms = {} THEN arg ELSE NextArg(f.new_terms)
    /\ UNCHANGED <<num_vars, minterms, dontcare, result, run, first>>
    /\ UNCHANGED renderVars

\* The return of the innermost active call.
Return ==
    /\ pc = "ret"
    /\ stack # <<>>
    /\ result' = ReturnValue(stack[Len(stack)], result)
    /\ stack' = SubSeq(stack, 1, Len(stack) - 1)
    /\ pc' = IF Len(stack) = 1 THEN "done" ELSE "ret"
    /\ UNCHANGED <<num_vars, minterms, dontcare, arg, run, first>>
    /\ UNCHANGED renderVars

\* The result is expanded to the indices it covers and minimised again.
Reminimize ==
    /\ pc = "done"
    /\ run = 1
    /\ first' = result
    /\ minterms' = Expand(result, num_vars)
    /\ run' = 2
    /\ pc' = "main"
    /\ UNCHANGED <<num_vars, dontcare, arg, stack, result>>
    /\ UNCHANGED renderVars

Render ==
    /\ pc = "render"
    /\ expr' = bits_to_expr(bits, vars_sorted)
    /\ pc' = "rendered"
    /\ UNCHANGED <<num_vars, minterms, dontcare, arg, stack, result, run, first>>
    /\ UNCHANGED <<bits, vars_sorted>>

----------------------------------------------------------------------------
(* Specifications *)

Next == Main \/ Call \/ Return \/ Reminimize

NextOnce == Main \/ Call \/ Return

NextCall == Call \/ Return

NextRender == Render

\* main followed by a re-minimisation of its result.
Spec == Init /\ [][Next]_vars

\* One run of main; the interpreter keeps executing until main returns.
FairSpec == Init /\ [][NextOnce]_vars /\ WF_vars(NextOnce)

\* qm_simplify called directly with any n and any indices.
SpecAnyInput == InitAnyInput /\ [][NextCall]_vars

\* bits_to_expr called directly.
SpecRender == InitRender /\ [][NextRender]_vars

----------------------------------------------------------------------------
(* Vocabulary of the properties *)

\* The n-bit, most-significant-first encoding of m, bit by bit.
Encode(m, n) == [i \in 1..n |-> IF Bit(m, i, n) = 1 THEN "1" ELSE "0"]

\* m and d differ in exactly one bit of their n-bit encodings.
Adjacent(m, d, n) ==
    Cardinality({i \in 1..n : Bit(m, i, n) # Bit(d, i, n)}) = 1

\* The number of active calls whose double loop produced a combined pattern.
CombiningLevels ==
    Cardinality({i \in 1..Len(stack) : stack[i].new_terms # {}})

\* The input breaks the contract of the engine.
Invalid ==
    \/ num_vars < 1
    \/ \E m \in minterms : m < 0 \/ m >= Pow2(num_vars)

\* The pieces of s between its "." characters.
RECURSIVE SplitDot(_)
SplitDot(s) ==
    IF \A i \in 1..Len(s) : s[i] # "."
    THEN <<s>>
    ELSE LET i == CHOOSE j \in 1..Len(s) :
                      s[j] = "." /\ \A k \in 1..(j - 1) : s[k] # "."
         IN  <<SubSeq(s, 1, i - 1)>> \o SplitDot(SubSeq(s, i + 1, Len(s)))

IsKept(b) == b # "-"

----------------------------------------------------------------------------
(* Properties *)

\* C1 (Coverage): when qm_simplify has returned, every minterm of the input
\* is covered by at least one pattern of the result.
Coverage ==
    pc = "done" =>
        \A m \in minterms : \E p \in result : Covers(p, m, num_vars)

\* C2 (Soundness): when qm_simplify has returned, every pattern of the result
\* has width num_vars and covers no index outside minterms \cup dontcare.
Soundness ==
    pc = "done" =>
        /\ \A p \in result : Len(p) = num_vars
        /\ Expand(result, num_vars) \subseteq (minterms \cup dontcare)

\* A run with three combining levels has returned (n = 3, all eight minterms).
SoundnessWitness ==
    /\ pc = "done"
    /\ run = 1
    /\ num_vars = 3
    /\ minterms = 0..7
    /\ result = {<<"0", "0", "0">>}

\* C3: when the minterm set is exactly the set of indices covered by one
\* pattern p of width num_vars, the result is {p}.
ExactCube ==
    pc = "done" =>
        \A p \in Patterns(num_vars) :
            minterms = Expand({p}, num_vars) => result = {p}

\* C4: the first working set holds the encoding of every don't-care index,
\* and a minterm adjacent to a don't-care index ends up merged with it: the
\* result has a pattern with a '-' that covers both.
DontCaresTakePart ==
    /\ (run = 1 /\ Len(stack) >= 1) =>
          \A d \in dontcare : Encode(d, num_vars) \in stack[1].terms
    /\ (run = 1 /\ pc = "done") =>
          \A m \in minterms : \A d \in dontcare :
              Adjacent(m, d, num_vars) =>
                  \E p \in result :
                      /\ Covers(p, m, num_vars)
                      /\ Covers(p, d, num_vars)

\* C5 (Single-minterm isolation): for a one-element minterm set {m} the
\* result is exactly the num_vars-bit encoding of m, without '-'.
SingleMinterm ==
    pc = "done" =>
        \A m \in minterms :
            minterms = {m} => result = {Encode(m, num_vars)}

\* qm_simplify({5}, 3) has returned {"101"}.
SingleMintermWitness ==
    /\ pc = "done"
    /\ run = 1
    /\ num_vars = 3
    /\ minterms = {5}
    /\ result = {<<"1", "0", "1">>}

\* C6 (Termination): every run of main reaches the return of the outermost
\* call, and at no time have more than num_vars active calls produced a
\* combined pattern.
Termination ==
    /\ <>(pc = "done")
    /\ [](CombiningLevels <= num_vars)

\* num_vars levels combined and the base case was reached at depth
\* num_vars + 1 (n = 3).
TerminationWitness ==
    /\ pc = "ret"
    /\ num_vars = 3
    /\ Len(stack) = 4
    /\ CombiningLevels = 3

Rendering ==
    pc = "rendered" =>
        LET kept == SelectSeq([i \in 1..Len(bits) |-> i],
                              LAMBDA i : IsKept(bits[i]))
        IN  IF kept = <<>>
            THEN expr = <<"1">>
            ELSE SplitDot(expr) =
                    [k \in 1..Len(kept) |->
                        IF bits[kept[k]] = "1"
                        THEN <<vars_sorted[kept[k]]>>
                        ELSE <<"!", vars_sorted[kept[k]]>>]

\* bits_to_expr("1-0", ["A", "B", "C"]) has returned "A.!C".
RenderingWitness ==
    /\ pc = "rendered"
    /\ bits = <<"1", "-", "0">>
    /\ vars_sorted = <<"A", "B", "C">>
    /\ expr = <<"A", ".", "!", "C">>

\* C10 (Subsumption): a pattern that took part in a successful combination
\* in a call that is still active is not in the value being returned to it.
Subsumption ==
    pc = "ret" =>
        \A i \in 1..Len(stack) :
            \A p \in stack[i].terms \ stack[i].unchecked : p \notin result

====
